---- MODULE Spec2Model ----
(***************************************************************************)
(* Model of src/main.py: the two-tier price search (search), the price     *)
(* parser (parse_price_to_number), the wholesale heuristic                 *)
(* (looks_wholesale), the provider wrapper (call_serpapi) and the bounded  *)
(* price history (price_history, record_history, get_history).             *)
(*                                                                         *)
(* Representation.  A Python text value is a sequence of one-character     *)
(* strings (<<"9", ".", "5">>), so that searching, lower-casing and        *)
(* number parsing are computed character by character.  Queries, messages *)
(* and provider error texts are only ever copied and concatenated by the   *)
(* code; they are TLA+ strings.  A price is a number                       *)
(* of hundredths (9.99 is 999): the parser keeps at most two fractional    *)
(* digits, so every float it produces is a whole number of hundredths.     *)
(***************************************************************************)
EXTENDS Integers, Sequences, FiniteSets, TLC

\* ------------------------------------------------------------------------
\* Bounds of the model
\* ------------------------------------------------------------------------

\* longest offer list a provider response carries
MaxOffers == 2

\* number of search requests served in one behaviour of Spec
MaxSearches == 2

\* number of history records written beyond HISTORY_LIMIT in SpecLedger
ExtraAppends == 2

\* ------------------------------------------------------------------------
\* Python values
\* ------------------------------------------------------------------------

\* a key that is absent from a dict, or present with the value None
\* (dict.get returns None for both)
None == <<"None">>

\* an absent or None numeric field
NoNumber == -1

Digits == <<"0", "1", "2", "3", "4", "5", "6", "7", "8", "9">>

IsDigit(c) == \E d \in 1..10 : Digits[d] = c

DigitVal(c) == (CHOOSE d \in 1..10 : Digits[d] = c) - 1

UpperCase ==
    <<"A", "B", "C", "D", "E", "F", "G", "H", "I", "J", "K", "L", "M",
      "N", "O", "P", "Q", "R", "S", "T", "U", "V", "W", "X", "Y", "Z">>

LowerCase ==
    <<"a", "b", "c", "d", "e", "f", "g", "h", "i", "j", "k", "l", "m",
      "n", "o", "p", "q", "r", "s", "t", "u", "v", "w", "x", "y", "z">>

\* str.lower() on one character
LowerChar(c) ==
    IF \E k \in 1..26 : UpperCase[k] = c
    THEN LowerCase[CHOOSE k \in 1..26 : UpperCase[k] = c]
    ELSE c

\* str.lower()
Lower(s) == [k \in 1..Len(s) |-> LowerChar(s[k])]

\* kw in text
Contains(text, kw) ==
    \E k \in 0..(Len(text) - Len(kw)) : SubSeq(text, k + 1, k + Len(kw)) = kw

\* x or "" for a text field: None and the empty text are both falsy
OrEmpty(x) == IF x = None \/ x = <<>> THEN <<>> ELSE x

\* str(n) for a non-negative int
RECURSIVE NatToStr(_)
NatToStr(n) ==
    IF n < 10 THEN <<Digits[n + 1]>>
    ELSE NatToStr(n \div 10) \o <<Digits[(n % 10) + 1]>>

\* str(x) for a float x >= 0 given in hundredths: the shortest repr,
\* which always keeps one fractional digit ("5.0", "9.5", "9.99")
FloatToStr(c) ==
    NatToStr(c \div 100) \o <<".">> \o
    (IF c % 10 = 0
     THEN <<Digits[((c % 100) \div 10) + 1]>>
     ELSE <<Digits[((c % 100) \div 10) + 1], Digits[(c % 10) + 1]>>)

\* ------------------------------------------------------------------------
\* parse_price_to_number
\* ------------------------------------------------------------------------

\* int(s) for a run of digits
RECURSIVE DigitsToNat(_)
DigitsToNat(s) ==
    IF s = <<>> THEN 0
    ELSE 10 * DigitsToNat(SubSeq(s, 1, Len(s) - 1)) + DigitVal(s[Len(s)])

\* last index of the maximal run of digits that starts at index k
RECURSIVE RunEnd(_, _)
RunEnd(s, k) ==
    IF k < Len(s) /\ IsDigit(s[k + 1]) THEN RunEnd(s, k + 1) ELSE k

\* the parser with the pattern r"(\d+)": the fraction is not read
parse_price_to_number_NoFraction(s) ==
    IF \A k \in 1..Len(s) : ~IsDigit(s[k])
    THEN 0
    ELSE
        LET b == CHOOSE k \in 1..Len(s) :
                     IsDigit(s[k]) /\ \A j \in 1..(k - 1) : ~IsDigit(s[j])
        IN  100 * DigitsToNat(SubSeq(s, b, RunEnd(s, b)))

\* re.search(r"(\d+(?:\.\d{1,2})?)", s) and float(m.group(1)), in hundredths;
\* 0 (the float 0.0) when nothing matches
parse_price_to_number(s) ==
    IF \A k \in 1..Len(s) : ~IsDigit(s[k])
    THEN 0
    ELSE
        LET b == CHOOSE k \in 1..Len(s) :
                     IsDigit(s[k]) /\ \A j \in 1..(k - 1) : ~IsDigit(s[j])
            e == RunEnd(s, b)
            whole == DigitsToNat(SubSeq(s, b, e))
            hasFrac == e + 2 <= Len(s) /\ s[e + 1] = "." /\ IsDigit(s[e + 2])
            twoFrac == hasFrac /\ e + 3 <= Len(s) /\ IsDigit(s[e + 3])
        IN  IF ~hasFrac THEN 100 * whole
            ELSE IF ~twoFrac THEN 100 * whole + 10 * DigitVal(s[e + 2])
            ELSE 100 * whole + 10 * DigitVal(s[e + 2]) + DigitVal(s[e + 3])

\* ------------------------------------------------------------------------
\* looks_wholesale
\* ------------------------------------------------------------------------

WHOLESALE_KEYWORDS ==
    << <<"w", "h", "o", "l", "e", "s", "a", "l", "e">>,
       <<"b", "u", "l", "k">>,
       <<"c", "a", "s", "e", " ", "o", "f">>,
       <<"c", "a", "s", "e">>,
       <<"c", "a", "r", "t", "o", "n">>,
       <<"b", "o", "x", " ", "o", "f">>,
       <<"p", "a", "c", "k", " ", "o", "f">>,
       <<"t", "r", "a", "d", "e">>,
       <<"b", "2", "b">>,
       <<"p", "a", "c", "k", " ", "x">>,
       <<"x", "1", "0">>,
       <<"x", "1", "2">>,
       <<"x", "2", "4">>,
       <<"x", "4", "8">> >>

looks_wholesale_CaseSensitive(item) ==
    LET text == OrEmpty(item.title) \o <<" ">> \o OrEmpty(item.source)
                \o <<" ">> \o OrEmpty(item.snippet)
    IN  \E k \in 1..Len(WHOLESALE_KEYWORDS) : Contains(text, WHOLESALE_KEYWORDS[k])

looks_wholesale(item) ==
    LET text == Lower(OrEmpty(item.title) \o <<" ">> \o OrEmpty(item.source)
                      \o <<" ">> \o OrEmpty(item.snippet))
    IN  \E k \in 1..Len(WHOLESALE_KEYWORDS) : Contains(text, WHOLESALE_KEYWORDS[k])

\* ------------------------------------------------------------------------
\* Offers (one element of a response's "shopping_results")
\* ------------------------------------------------------------------------

\* item.get("price") or item.get("extracted_price") or "", then str() of it.
\* "price" is a text or None; "extracted_price" a float in hundredths or
\* NoNumber; an empty text and the number 0 are falsy.
PriceRaw(item) ==
    IF item.price # None /\ item.price # <<>> THEN item.price
    ELSE IF item.extracted_price # NoNumber /\ item.extracted_price # 0
         THEN FloatToStr(item.extracted_price)
         ELSE <<>>

\* the body of the loops at lines 156-159 and 200-203: the item with its
\* "price_raw" and "price_value" keys set
Priced(item) ==
    [title |-> item.title, source |-> item.source, snippet |-> item.snippet,
     link |-> item.link, price |-> item.price,
     extracted_price |-> item.extracted_price,
     price_raw |-> PriceRaw(item),
     price_value |-> parse_price_to_number(PriceRaw(item))]

PricedAll(items) == [k \in 1..Len(items) |-> Priced(items[k])]

\* the condition of the comprehension at lines 161-163
WholesaleItem(i) == looks_wholesale(i) /\ i.price_value > 0

\* the condition of the comprehension at line 205
PricedItem(i) == i.price_value > 0

\* min(items, key=lambda x: x["price_value"]): the first of the minima
MinByPrice(items) ==
    items[CHOOSE k \in 1..Len(items) :
              /\ \A j \in 1..Len(items) :
                     items[k].price_value <= items[j].price_value
              /\ \A j \in 1..(k - 1) :
                     items[j].price_value > items[k].price_value]

\* ------------------------------------------------------------------------
\* Price history
\* ------------------------------------------------------------------------

HISTORY_LIMIT == 200

\* DequeAppend with the wrong end dropped: a full deque refuses the new entry
DequeAppend_KeepsOldest(history, entry) ==
    IF Len(history) >= HISTORY_LIMIT THEN history ELSE Append(history, entry)

\* list.append: nothing is dropped
DequeAppend_Unbounded(history, entry) == Append(history, entry)

\* deque(maxlen=HISTORY_LIMIT).append: a full deque drops its oldest element
DequeAppend(history, entry) ==
    IF Len(history) >= HISTORY_LIMIT
    THEN Append(Tail(history), entry)
    ELSE Append(history, entry)

\* the entry built at lines 36-45; ts is the reading of the clock.  The
\* modelled offers carry no "store" key, so best.get("store") is None.
HistoryEntry(ts, query, country, mode, best) ==
    [ts |-> ts,
     query |-> query,
     country |-> country,
     mode |-> mode,
     title |-> OrEmpty(best.title),
     price_value |-> best.price_value,
     price_raw |-> IF OrEmpty(best.price_raw) # <<>> THEN best.price_raw
                   ELSE OrEmpty(best.price),
     source |-> IF OrEmpty(best.source) # <<>> THEN best.source
                ELSE OrEmpty(None)]

\* record_history with query and country taken in the wrong order
record_history_Swapped(history, ts, query, country, mode, best) ==
    DequeAppend(history, HistoryEntry(ts, country, query, mode, best))

\* record_history: price_history after the call
record_history(history, ts, query, country, mode, best) ==
    DequeAppend(history, HistoryEntry(ts, query, country, mode, best))

\* ClampLimit without its lower bound: min(limit, HISTORY_LIMIT)
ClampLimit_NoFloor(limit) ==
    IF limit < HISTORY_LIMIT THEN limit ELSE HISTORY_LIMIT

\* limit = max(1, min(limit, HISTORY_LIMIT))
ClampLimit(limit) ==
    LET lo == IF limit < HISTORY_LIMIT THEN limit ELSE HISTORY_LIMIT
    IN  IF lo > 1 THEN lo ELSE 1

\* lst[start:] for any int start (a negative start counts from the end)
SliceFrom(lst, start) ==
    LET n == Len(lst)
        b == IF start < 0
             THEN (IF n + start > 0 THEN n + start ELSE 0)
             ELSE (IF start < n THEN start ELSE n)
    IN  SubSeq(lst, b + 1, n)

\* lst[::-1]
Reversed(lst) == [k \in 1..Len(lst) |-> lst[Len(lst) + 1 - k]]

\* get_history: the list returned
get_history(history, limit) ==
    Reversed(SliceFrom(history, -ClampLimit(limit)))

\* ------------------------------------------------------------------------
\* call_serpapi
\* ------------------------------------------------------------------------

\* a dict key that is absent
NoKey == "<absent>"

\* None where an offer dict is expected ("best": None)
NoneOffer == [none |-> TRUE]

\* gl_map.get(country.lower(), "uk")
Gl(country) ==
    LET c == Lower(country)
    IN  IF c = <<"u", "k">> THEN <<"u", "k">>
        ELSE IF c = <<"u", "s">> THEN <<"u", "s">>
        ELSE IF c = <<"e", "u">> THEN <<"d", "e">>
        ELSE IF c = <<"a", "u">> THEN <<"a", "u">>
        ELSE <<"u", "k">>

\* call_serpapi: the dict returned and the provider requests made.  resp is
\* what GoogleSearch(params).get_dict() answers: a dict that holds the
\* keys resp.keys, or an exception (Raises), which call_serpapi lets through
\* to its caller.
call_serpapi(key, query, country, resp) ==
    IF key = ""
    THEN [result |-> [keys |-> {"error"}, error |-> "missing_serpapi_key",
                      shopping_results |-> <<>>],
          calls |-> <<>>]
    ELSE [result |-> resp,
          calls |-> <<[engine |-> "google_shopping", q |-> query,
                       gl |-> Gl(country)]>>]

\* GoogleSearch(params).get_dict() raises instead of answering (the network
\* fails, the body is not JSON); resp.error is the exception's text
Raises(resp) == "<raises>" \in resp.keys

\* an exception that leaves the handler: nothing is returned
Unhandled(text) == [exception |-> text]

\* result.get("shopping_results", []) or []
ShoppingResults(result) ==
    IF "shopping_results" \in result.keys THEN result.shopping_results ELSE <<>>

\* ------------------------------------------------------------------------
\* search
\* ------------------------------------------------------------------------

\* line 143: wholesale_query = f"{query} wholesale bulk trade b2b case pack"
Tier1Query(query) == query \o " wholesale bulk trade b2b case pack"

\* Tier2Query with the wholesale-biased query sent again
Tier2Query_Biased(query) == Tier1Query(query)

\* line 178: the second request carries the query as given
Tier2Query(query) == query

\* the dicts returned at lines 134-140, 147-153, 181-187 and 192-198
Failure(query, country, message) ==
    [query |-> query, country |-> country, message |-> message,
     best |-> NoneOffer, results |-> <<>>, mode |-> NoKey]

\* ProviderError with the provider's text left out of the message
ProviderError_NoDetail(query, country, error) ==
    Failure(query, country, "serpapi_error: ")

\* the dicts returned at lines 147-153 and 181-187
ProviderError(query, country, error) ==
    Failure(query, country, "serpapi_error: " \o error)

\* NoPriceParsed with the first offer returned as best
NoPriceParsed_FirstAsBest(query, country, shopping2) ==
    [query |-> query, country |-> country, message |-> "no_price_parsed",
     best |-> shopping2[1], results |-> shopping2, mode |-> "retail_fallback"]

\* the dict returned at lines 208-215
NoPriceParsed(query, country, shopping2) ==
    [query |-> query, country |-> country, message |-> "no_price_parsed",
     best |-> NoneOffer, results |-> shopping2, mode |-> "retail_fallback"]

\* lines 155-163: tier-1 offers priced, then the wholesale ones with a price
WholesaleItems(result1) ==
    SelectSeq(PricedAll(ShoppingResults(result1)), WholesaleItem)

\* lines 133-175: TRUE when search goes on to its second provider call
ReachesTier2(key, query, country, resp1) ==
    /\ key # ""
    /\ LET result1 == call_serpapi(key, Tier1Query(query), country,
                                   resp1).result
       IN  /\ ~Raises(result1)
           /\ "error" \notin result1.keys
           /\ WholesaleItems(result1) = <<>>

\* lines 177-227, entered with the calls made so far
Tier2(key, history, ts, query, country, calls1, resp2) ==
    LET c2 == call_serpapi(key, Tier2Query(query), country, resp2)
        result2 == c2.result
        calls == calls1 \o c2.calls
        shopping2 == PricedAll(ShoppingResults(result2))
        priced == SelectSeq(shopping2, PricedItem)
    IN  IF Raises(result2)
        THEN [ret |-> Unhandled(result2.error),
              calls |-> calls, recorded |-> <<>>, history |-> history]
        ELSE IF "error" \in result2.keys
        THEN [ret |-> ProviderError(query, country, result2.error),
              calls |-> calls, recorded |-> <<>>, history |-> history]
        ELSE IF ShoppingResults(result2) = <<>>
        THEN [ret |-> Failure(query, country, "no_shopping_results"),
              calls |-> calls, recorded |-> <<>>, history |-> history]
        ELSE IF priced = <<>>
        THEN [ret |-> NoPriceParsed(query, country, shopping2),
              calls |-> calls, recorded |-> <<>>, history |-> history]
        ELSE [ret |-> [query |-> query, country |-> country,
                       message |-> "ok", best |-> MinByPrice(priced),
                       results |-> priced, mode |-> "retail_fallback"],
              calls |-> calls,
              recorded |-> <<[query |-> query, country |-> country,
                              mode |-> "retail_fallback",
                              best |-> MinByPrice(priced)]>>,
              history |-> record_history(history, ts, query, country,
                                         "retail_fallback",
                                         MinByPrice(priced))]

\* search: the dict returned (or the exception that leaves it, which no
\* try statement of search or call_serpapi catches), the provider requests made in order, the
\* arguments of the record_history calls made, and price_history after the
\* call.  resp1 and resp2 are the provider's answers
\* to the first and second request.
search(key, history, ts, query, country, resp1, resp2) ==
    IF key = ""
    THEN [ret |-> Failure(query, country, "missing_serpapi_key"),
          calls |-> <<>>, recorded |-> <<>>, history |-> history]
    ELSE
        LET c1 == call_serpapi(key, Tier1Query(query), country, resp1)
            result1 == c1.result
            wholesale_items == WholesaleItems(result1)
        IN  IF Raises(result1)
            THEN [ret |-> Unhandled(result1.error),
                  calls |-> c1.calls, recorded |-> <<>>,
                  history |-> history]
            ELSE IF "error" \in result1.keys
            THEN [ret |-> ProviderError(query, country, result1.error),
                  calls |-> c1.calls, recorded |-> <<>>,
                  history |-> history]
            ELSE IF wholesale_items # <<>>
            THEN [ret |-> [query |-> query, country |-> country,
                           message |-> "ok",
                           best |-> MinByPrice(wholesale_items),
                           results |-> wholesale_items,
                           mode |-> "wholesale_priority"],
                  calls |-> c1.calls,
                  recorded |-> <<[query |-> query, country |-> country,
                                  mode |-> "wholesale_priority",
                                  best |-> MinByPrice(wholesale_items)]>>,
                  history |-> record_history(history, ts, query, country,
                                             "wholesale_priority",
                                             MinByPrice(wholesale_items))]
            ELSE Tier2(key, history, ts, query, country, c1.calls, resp2)

\* ------------------------------------------------------------------------
\* Inputs: what callers send and what the provider answers
\* ------------------------------------------------------------------------

Offer(title, source, snippet, link, price, extracted_price) ==
    [title |-> title, source |-> source, snippet |-> snippet, link |-> link,
     price |-> price, extracted_price |-> extracted_price]

\* wholesale by its title, 5.00, with a link
BulkBox ==
    Offer(<<"B", "u", "l", "k", " ", "A">>, <<"S", "h", "o", "p">>, None,
          <<"u", "1">>, <<"$", "5", ".", "0", "0">>, NoNumber)

\* not wholesale, 3.00, with a link
DogTreat ==
    Offer(<<"D", "o", "g", " ", "B">>, None, None,
          <<"u", "2">>, <<"$", "3">>, 300)

\* wholesale by its source, 4.50, without a link
TradeNoLink ==
    Offer(<<"D", "o", "g", " ", "C">>, <<"B", "2", "B">>, None,
          None, <<"4", ".", "5", " ", "G", "B", "P">>, NoNumber)

\* wholesale by its snippet, 5.00 given as a number, with a link
CaseNumeric ==
    Offer(<<"D", "o", "g", " ", "D">>, None, <<"S", "H", "O", "W", "C", "A", "S", "E">>,
          <<"u", "3">>, None, 500)

\* wholesale by its title, no digit in the price text, with a link
TradePOA ==
    Offer(<<"T", "r", "a", "d", "e", " ", "E">>, <<>>, <<>>,
          <<"u", "4">>, <<"P", "O", "A">>, NoNumber)

Catalog == {BulkBox, DogTreat, TradeNoLink, CaseNumeric, TradePOA}

OfferLists == UNION {[1..n -> Catalog] : n \in 0..MaxOffers}

\* the provider's error texts: a rejected credential, and the text with
\* which it reports that a query matched nothing
InvalidKeyError == "Invalid API key. Your API key should be here: https://serpapi.com/manage-api-key"

NoResultsError == "Google hasn't returned any results for this query."

ErrorResponse(text) ==
    [keys |-> {"error"}, error |-> text, shopping_results |-> <<>>]

ResultsResponse(items) ==
    [keys |-> {"shopping_results"}, error |-> "", shopping_results |-> items]

\* the request fails in transit and get_dict raises
RaisesResponse ==
    [keys |-> {"<raises>"}, error |-> "ConnectionError",
     shopping_results |-> <<>>]

\* an answer with neither key
BareResponse == [keys |-> {}, error |-> "", shopping_results |-> <<>>]

\* no request was made
NotAsked == [keys |-> {"<not asked>"}, error |-> "", shopping_results |-> <<>>]

Responses ==
    {ErrorResponse(InvalidKeyError), ErrorResponse(NoResultsError), BareResponse,
     RaisesResponse}
    \cup {ResultsResponse(items) : items \in OfferLists}

Queries == {"dog treats"}

Countries == {<<"E", "U">>}

Limits == {-1, 0, 1, 2, 50, HISTORY_LIMIT - 1, HISTORY_LIMIT, HISTORY_LIMIT + 1}

\* ------------------------------------------------------------------------
\* State
\* ------------------------------------------------------------------------

VARIABLES
    SERPAPI_KEY,    \* os.getenv("SERPAPI_KEY"); "" when it is not set
    price_history,  \* the deque, oldest first
    now,            \* the clock read by datetime.utcnow()
    req,            \* the request served and the provider's answers to it
    ret,            \* what the request returned
    calls,          \* the provider requests the request made, in order
    before,         \* price_history when the request arrived
    appended,       \* every entry passed to price_history.append, in order
    threads         \* the worker threads that serve requests side by side

vars ==
    <<SERPAPI_KEY, price_history, now, req, ret, calls, before, appended,
      threads>>

\* the threads of the pool that runs the handlers (both are plain def)
Threads == {"t1", "t2"}

\* a thread that serves no request: pc is where it stands, n the requests it
\* has taken, op the handler it runs, result the dict search will return, rec
\* the arguments of its record_history call, entry the dict it built, limit
\* and snap the locals of get_history, ret what get_history returned.  at
\* and ats are the positions, in the order of all appends, at which its
\* append or its copy of the deque took effect.
Idle ==
    [pc |-> "idle", n |-> 0, op |-> "none", result |-> [none |-> TRUE],
     rec |-> <<>>, entry |-> [none |-> TRUE], limit |-> 0, snap |-> <<>>,
     ret |-> <<>>, at |-> 0, ats |-> {}]

Request(op, query, country, resp1, resp2, limit) ==
    [op |-> op, query |-> query, country |-> country,
     resp1 |-> resp1, resp2 |-> resp2, limit |-> limit]

\* no request is being served
NoRequest == Request("none", "", <<>>, NotAsked, NotAsked, 0)

Init ==
    /\ SERPAPI_KEY \in {"", "secret"}
    /\ price_history = <<>>
    /\ now = 0
    /\ req = NoRequest
    /\ ret = NoneOffer
    /\ calls = <<>>
    /\ before = <<>>
    /\ appended = <<>>
    /\ threads = [t \in Threads |-> Idle]

\* GET /search.  The provider answers each request the handler makes; an
\* answer is drawn only for a request that is made.
Search ==
    /\ req = NoRequest
    /\ now < MaxSearches
    /\ \E query \in Queries, country \in Countries :
        \E resp1 \in (IF SERPAPI_KEY = "" THEN {NotAsked} ELSE Responses) :
            \E resp2 \in (IF ReachesTier2(SERPAPI_KEY, query, country, resp1)
                          THEN Responses ELSE {NotAsked}) :
                \E out \in {search(SERPAPI_KEY, price_history, now, query,
                                   country, resp1, resp2)} :
                    /\ price_history' = out.history
                    /\ ret' = out.ret
                    /\ calls' = out.calls
                    /\ appended' = appended \o
                           [k \in 1..Len(out.recorded) |->
                               HistoryEntry(now, out.recorded[k].query,
                                            out.recorded[k].country,
                                            out.recorded[k].mode,
                                            out.recorded[k].best)]
                    /\ req' = Request("search", query, country, resp1, resp2, 0)
    /\ before' = price_history
    /\ now' = now + 1
    /\ UNCHANGED <<SERPAPI_KEY, threads, threads>>

\* GET /history
GetHistory ==
    /\ req = NoRequest
    /\ \E limit \in Limits :
        /\ ret' = get_history(price_history, limit)
        /\ req' = Request("history", "", <<>>, NotAsked, NotAsked, limit)
    /\ calls' = <<>>
    /\ before' = price_history
    /\ UNCHANGED <<SERPAPI_KEY, threads, price_history, now, appended>>

\* The value returned is handed to the caller and the request is over.  The
\* handlers are served one at a time here.
Respond ==
    /\ req # NoRequest
    /\ req' = NoRequest
    /\ ret' = NoneOffer
    /\ calls' = <<>>
    /\ before' = price_history
    /\ UNCHANGED <<SERPAPI_KEY, threads, price_history, now, appended>>

Next == Search \/ GetHistory \/ Respond

Spec == Init /\ [][Next]_vars

\* ------------------------------------------------------------------------
\* The history on its own, filled past its capacity
\* ------------------------------------------------------------------------

RecordArgs(query, country, mode, best) ==
    [query |-> query, country |-> country, mode |-> mode, best |-> best]

\* arguments with which search calls record_history
LedgerRecords ==
    {RecordArgs("dog treats", <<"u", "k">>, "wholesale_priority", Priced(BulkBox)),
     RecordArgs("dog treats", <<"E", "U">>, "retail_fallback", Priced(DogTreat)),
     RecordArgs("dog treats", <<"u", "k">>, "retail_fallback", Priced(CaseNumeric))}

\* The arguments of the n-th call.  Up to the call that fills the deque the
\* same search is repeated (the entries differ in their timestamps); from
\* then on every call is free.
Workload(n) ==
    IF n < HISTORY_LIMIT
    THEN {RecordArgs("dog treats", <<"u", "k">>, "wholesale_priority",
                     Priced(BulkBox))}
    ELSE LedgerRecords

\* one call of record_history
RecordHistory ==
    /\ req = NoRequest
    /\ Len(appended) < HISTORY_LIMIT + ExtraAppends
    /\ \E a \in Workload(Len(appended) + 1) :
        /\ price_history' = record_history(price_history, now, a.query,
                                           a.country, a.mode, a.best)
        /\ appended' = Append(appended,
                              HistoryEntry(now, a.query, a.country, a.mode,
                                           a.best))
        /\ req' = Request("record", a.query, a.country, NotAsked, NotAsked, 0)
    /\ ret' = NoneOffer
    /\ calls' = <<>>
    /\ before' = price_history
    /\ now' = now + 1
    /\ UNCHANGED <<SERPAPI_KEY, threads, threads>>

NextLedger == RecordHistory \/ GetHistory \/ Respond

SpecLedger == Init /\ [][NextLedger]_vars

\* ------------------------------------------------------------------------
\* Vocabulary of the properties
\* ------------------------------------------------------------------------

StartsWith(text, prefix) ==
    Len(text) >= Len(prefix) /\ SubSeq(text, 1, Len(prefix)) = prefix

\* the status a returned dict stands for, read from its "message"
Status(r) ==
    IF r.message = "ok" THEN "OK"
    ELSE IF r.message = "missing_serpapi_key" THEN "MISSING_CONFIG"
    ELSE IF r.message = "no_shopping_results" THEN "NO_RESULTS"
    ELSE IF r.message = "no_price_parsed" THEN "NO_PRICE_PARSED"
    ELSE IF StartsWith(r.message, "serpapi_error: ") THEN "PROVIDER_ERROR"
    ELSE "UNKNOWN"

Statuses ==
    {"OK", "MISSING_CONFIG", "PROVIDER_ERROR", "NO_RESULTS", "NO_PRICE_PARSED"}

\* the request served was a search
SearchServed == req.op = "search"

\* the handler ended with an exception instead of a return value
Escaped(r) == "exception" \in DOMAIN r

\* the request served was a search, and it returned a dict
Searched == SearchServed /\ ~Escaped(ret)

\* the request served was a read of the history
ReadHistory == req.op = "history"

\* an offer eligible for selection: a positive price and a non-empty link
Usable(o) == o.price_value > 0 /\ o.link # None /\ o.link # <<>>

UsableWholesale(o) == Usable(o) /\ looks_wholesale(o)

\* the offers the provider returned to the first and to the second request,
\* with their prices parsed
Tier1Offers == PricedAll(ShoppingResults(req.resp1))

Tier2Offers == PricedAll(ShoppingResults(req.resp2))

\* o is the cheapest of items, the earliest of the cheapest
FirstCheapest(o, items) ==
    \E k \in 1..Len(items) :
        /\ items[k] = o
        /\ \A j \in 1..Len(items) : items[j].price_value >= o.price_value
        /\ \A j \in 1..(k - 1) : items[j].price_value # o.price_value

\* the provider reports an error
Failed(resp) == "error" \in resp.keys

\* the answer says only that the query matched nothing: an empty or absent
\* offer list, or the provider's "no results" error text
NoResultsOnly(resp) ==
    \/ resp = ResultsResponse(<<>>)
    \/ resp = BareResponse
    \/ resp = ErrorResponse(NoResultsError)

\* a failure other than "no results"
HardError(resp) == Failed(resp) /\ ~NoResultsOnly(resp)

\* the second provider request was made
Tier2Invoked == Len(calls) = 2

Min(a, b) == IF a < b THEN a ELSE b

\* the last n elements of s
KeepLast(s, n) == SubSeq(s, Len(s) - Min(n, Len(s)) + 1, Len(s))

\* ------------------------------------------------------------------------
\* C1
\* ------------------------------------------------------------------------

\* C1: when the first answer says only that the query had no results,
\* however it says so, search makes the second request with the query as
\* given, and returns PROVIDER_ERROR only if the second answer is an error.
C1_NoResultsFallsBack ==
    (Searched /\ SERPAPI_KEY # "" /\ NoResultsOnly(req.resp1)) =>
        /\ Tier2Invoked
        /\ calls[2].q = req.query
        /\ (Status(ret) = "PROVIDER_ERROR" => Failed(req.resp2))

\* ------------------------------------------------------------------------
\* C2
\* ------------------------------------------------------------------------

\* C2: when some tier-1 offer is usable and wholesale, search returns OK in
\* mode wholesale_priority, its results are exactly the usable wholesale
\* tier-1 offers in provider order, and best is the first cheapest of them.
C2_WholesalePriority ==
    (/\ Searched
     /\ SERPAPI_KEY # ""
     /\ ~Failed(req.resp1)
     /\ \E k \in 1..Len(Tier1Offers) : UsableWholesale(Tier1Offers[k])) =>
        /\ Status(ret) = "OK"
        /\ ret.mode = "wholesale_priority"
        /\ ret.results = SelectSeq(Tier1Offers, UsableWholesale)
        /\ FirstCheapest(ret.best, SelectSeq(Tier1Offers, UsableWholesale))

\* ------------------------------------------------------------------------
\* C3
\* ------------------------------------------------------------------------

\* C3: the second request is made exactly when the first completed without
\* a hard error and gave no usable wholesale offer; and best is a wholesale
\* offer whenever the mode is wholesale_priority.
C3_FallbackTrigger ==
    Searched =>
        /\ Tier2Invoked <=>
               (/\ SERPAPI_KEY # ""
                /\ ~HardError(req.resp1)
                /\ \A k \in 1..Len(Tier1Offers) :
                       ~UsableWholesale(Tier1Offers[k]))
        /\ ret.mode = "wholesale_priority" => looks_wholesale(ret.best)

\* ------------------------------------------------------------------------
\* C4
\* ------------------------------------------------------------------------

\* C4: in an OK result, best and every element of results is usable: a
\* positive price and a non-empty link.
C4_OkOffersUsable ==
    (Searched /\ Status(ret) = "OK") =>
        /\ Usable(ret.best)
        /\ \A k \in 1..Len(ret.results) : Usable(ret.results[k])

\* ------------------------------------------------------------------------
\* C5
\* ------------------------------------------------------------------------

\* C5: every result carries one of the five statuses, and its best is None
\* exactly when the status is not OK.
C5_BestIffOk ==
    Searched =>
        /\ Status(ret) \in Statuses
        /\ ret.best = NoneOffer <=> Status(ret) # "OK"

\* a search that found offers but no price: a result with offers and no best
C5_Witness ==
    /\ Searched
    /\ Status(ret) = "NO_PRICE_PARSED"
    /\ ret.results # <<>>
    /\ ret.best = NoneOffer

\* ------------------------------------------------------------------------
\* C6
\* ------------------------------------------------------------------------

\* C6: when the second request is made and answers with at least one usable
\* offer, search returns OK in mode retail_fallback, its results are exactly
\* the usable tier-2 offers in provider order, and best is the first
\* cheapest of them.
C6_RetailFallback ==
    (/\ Searched
     /\ Tier2Invoked
     /\ ~Failed(req.resp2)
     /\ \E k \in 1..Len(Tier2Offers) : Usable(Tier2Offers[k])) =>
        /\ Status(ret) = "OK"
        /\ ret.mode = "retail_fallback"
        /\ ret.results = SelectSeq(Tier2Offers, Usable)
        /\ FirstCheapest(ret.best, SelectSeq(Tier2Offers, Usable))

\* ------------------------------------------------------------------------
\* C7
\* ------------------------------------------------------------------------

\* C7: a search that returns OK appends exactly one entry, which carries the
\* query, region and mode of the result and the title and price_value of its
\* best; any other search leaves the history as it was.
C7_LedgerOnlyOnOk ==
    Searched =>
        IF Status(ret) = "OK"
        THEN /\ price_history # <<>>
             /\ price_history =
                    KeepLast(Append(before, price_history[Len(price_history)]),
                             HISTORY_LIMIT)
             /\ LET e == price_history[Len(price_history)]
                IN  /\ e.query = ret.query
                    /\ e.country = ret.country
                    /\ e.mode = ret.mode
                    /\ e.title = ret.best.title
                    /\ e.price_value = ret.best.price_value
        ELSE price_history = before

\* an OK search that found the history non-empty
C7_Witness ==
    /\ Searched
    /\ Status(ret) = "OK"
    /\ before # <<>>
    /\ Len(price_history) = Len(before) + 1

\* ------------------------------------------------------------------------
\* C8
\* ------------------------------------------------------------------------

\* C8: after n appends the history holds the last min(n, HISTORY_LIMIT)
\* appended entries, oldest first.
C8_LedgerBound ==
    /\ Len(price_history) = Min(Len(appended), HISTORY_LIMIT)
    /\ price_history = KeepLast(appended, HISTORY_LIMIT)

\* HISTORY_LIMIT + 1 appends: the first entry is gone, the second is the
\* oldest kept
C8_Witness ==
    /\ Len(appended) = HISTORY_LIMIT + 1
    /\ Len(price_history) = HISTORY_LIMIT
    /\ price_history[1] = appended[2]
    /\ price_history[HISTORY_LIMIT] = appended[HISTORY_LIMIT + 1]

\* ------------------------------------------------------------------------
\* C9
\* ------------------------------------------------------------------------

\* clamp(limit, 1, HISTORY_LIMIT)
Clamped(limit) ==
    IF limit < 1 THEN 1 ELSE IF limit > HISTORY_LIMIT THEN HISTORY_LIMIT ELSE limit

\* C9: a read with any limit returns min(clamp(limit, 1, HISTORY_LIMIT),
\* length) entries, the most recently appended ones newest first, and leaves
\* the history as it was.
C9_RecentNewestFirst ==
    ReadHistory =>
        /\ Len(ret) = Min(Clamped(req.limit), Len(before))
        /\ \A k \in 1..Len(ret) : ret[k] = before[Len(before) + 1 - k]
        /\ price_history = before

\* a read with a limit below 1 of a history that overflowed
C9_Witness ==
    /\ ReadHistory
    /\ req.limit < 1
    /\ Len(appended) > HISTORY_LIMIT
    /\ Len(ret) = 1
    /\ ret[1] = appended[Len(appended)]

\* ------------------------------------------------------------------------
\* C10
\* ------------------------------------------------------------------------

\* C10: a search makes at most two provider requests, the first with the
\* wholesale-biased query and the second with the query as given; none
\* after a first answer that is an error, and none without a key.
C10_AtMostTwoCalls ==
    SearchServed =>
        /\ Len(calls) <= 2
        /\ Len(calls) >= 1 =>
               calls[1].q = req.query \o " wholesale bulk trade b2b case pack"
        /\ Len(calls) = 2 => (calls[2].q = req.query /\ calls[2] # calls[1])
        /\ Failed(req.resp1) => Len(calls) = 1
        /\ SERPAPI_KEY = "" => calls = <<>>

\* a search that made both requests
C10_Witness ==
    /\ Searched
    /\ Len(calls) = 2
    /\ calls[1].q = "dog treats wholesale bulk trade b2b case pack"
    /\ calls[2].q = "dog treats"

\* ------------------------------------------------------------------------
\* C11
\* ------------------------------------------------------------------------

\* C11: a hard provider error in the first or in the second answer makes
\* search return PROVIDER_ERROR with the provider's error text in its
\* message, no best and no results, so that no tier-1 offer is returned
\* after an error in tier 2.
C11_HardErrorShortCircuits ==
    Searched =>
        /\ HardError(req.resp1) =>
               /\ Status(ret) = "PROVIDER_ERROR"
               /\ ret.message = "serpapi_error: " \o req.resp1.error
               /\ ret.best = NoneOffer
               /\ ret.results = <<>>
        /\ (Tier2Invoked /\ HardError(req.resp2)) =>
               /\ Status(ret) = "PROVIDER_ERROR"
               /\ ret.message = "serpapi_error: " \o req.resp2.error
               /\ ret.best = NoneOffer
               /\ ret.results = <<>>

\* tier 1 returned priced offers, none wholesale, and tier 2 failed hard
C11_Witness ==
    /\ Searched
    /\ Tier2Invoked
    /\ \E k \in 1..Len(Tier1Offers) : Tier1Offers[k].price_value > 0
    /\ HardError(req.resp2)
    /\ ret.results = <<>>
    /\ ret.message = "serpapi_error: " \o InvalidKeyError

\* ------------------------------------------------------------------------
\* C12
\* ------------------------------------------------------------------------

\* the answer carries no offer
NoOffers(resp) == ShoppingResults(resp) = <<>>

\* C12: when the second request is made and does not fail hard, search
\* returns NO_RESULTS with no results if the answer carries no offer, and
\* NO_PRICE_PARSED with no best and with all the tier-2 offers, in provider
\* order, if it carries offers of which none is usable.
C12_EmptyOutcomes ==
    (Searched /\ Tier2Invoked /\ ~HardError(req.resp2)) =>
        /\ NoOffers(req.resp2) =>
               (Status(ret) = "NO_RESULTS" /\ ret.results = <<>>)
        /\ (/\ ~NoOffers(req.resp2)
            /\ \A k \in 1..Len(Tier2Offers) : ~Usable(Tier2Offers[k])) =>
               /\ Status(ret) = "NO_PRICE_PARSED"
               /\ ret.best = NoneOffer
               /\ ret.results = Tier2Offers

\* ------------------------------------------------------------------------
\* C14
\* ------------------------------------------------------------------------

\* C14: every search, whatever the provider does, a provider call that
\* raises included, ends by returning a dict with one of the five statuses;
\* no exception leaves search.
C14_AlwaysStructured ==
    SearchServed => (~Escaped(ret) /\ Status(ret) \in Statuses)

\* ------------------------------------------------------------------------
\* C16: the price parser on its own
\* ------------------------------------------------------------------------

\* the longest raw text tried
MaxRawLen == 4

\* digits, '.', ',', a currency symbol and a letter
RawAlphabet == {"0", "5", "9", ".", ",", "$", "a"}

\* what callers pass as price_raw: a text, a float (in hundredths) or None
RawTexts ==
    UNION {[1..n -> RawAlphabet] : n \in 0..MaxRawLen}

RawFloats == {0, 5, 50, 500, 999, 1250}

RawInputs ==
    {[text |-> t] : t \in RawTexts} \cup {[float |-> c] : c \in RawFloats}
    \cup {NoneOffer}

\* str(price_raw)
Str(x) ==
    IF "text" \in DOMAIN x THEN x.text
    ELSE IF "float" \in DOMAIN x THEN FloatToStr(x.float)
    ELSE <<"N", "o", "n", "e">>

\* one call of parse_price_to_number
ParsePrice ==
    /\ req = NoRequest
    /\ \E price_raw \in RawInputs :
        /\ req' = [op |-> "parse", price_raw |-> price_raw]
        /\ ret' = parse_price_to_number(Str(price_raw))
    /\ calls' = <<>>
    /\ before' = price_history
    /\ UNCHANGED <<SERPAPI_KEY, threads, price_history, now, appended>>

NextParse == ParsePrice \/ Respond

SpecParse == Init /\ [][NextParse]_vars

\* the request served was a call of the parser
Parsed == req.op = "parse"

\* the text the parser scanned
Scanned == Str(req.price_raw)

AllDigits(s, b, e) == \A k \in b..e : IsDigit(s[k])

\* s[b..e] is a run of one or more digits, optionally followed by '.' and
\* one or two digits
IsNumber(s, b, e) ==
    /\ 1 <= b /\ b <= e /\ e <= Len(s)
    /\ \E d \in b..e :
        /\ AllDigits(s, b, d)
        /\ \/ e = d
           \/ /\ e \in {d + 2, d + 3}
              /\ s[d + 1] = "."
              /\ AllDigits(s, d + 2, e)

HasNumber(s) == \E b, e \in 1..Len(s) : IsNumber(s, b, e)

\* where the leftmost number of s starts, and where the longest number
\* that starts there ends
LeftmostStart(s) ==
    CHOOSE b \in 1..Len(s) :
        /\ \E e \in b..Len(s) : IsNumber(s, b, e)
        /\ \A c \in 1..(b - 1) : \A e \in c..Len(s) : ~IsNumber(s, c, e)

LeftmostEnd(s) ==
    CHOOSE e \in LeftmostStart(s)..Len(s) :
        /\ IsNumber(s, LeftmostStart(s), e)
        /\ \A f \in (e + 1)..Len(s) : ~IsNumber(s, LeftmostStart(s), f)

\* the value, in hundredths, of a text that is a number
NumberValue(m) ==
    IF \A k \in 1..Len(m) : m[k] # "."
    THEN 100 * DigitsToNat(m)
    ELSE LET d == CHOOSE k \in 1..Len(m) : m[k] = "."
             frac == SubSeq(m, d + 1, Len(m))
         IN  100 * DigitsToNat(SubSeq(m, 1, d - 1))
             + (IF Len(frac) = 1 THEN 10 ELSE 1) * DigitsToNat(frac)

LeftmostValue(s) == NumberValue(SubSeq(s, LeftmostStart(s), LeftmostEnd(s)))

HasDigit(s) == \E k \in 1..Len(s) : IsDigit(s[k])

\* the parser returns the value of the leftmost number, and 0 without one
ReturnsLeftmost ==
    ret = (IF HasNumber(Scanned) THEN LeftmostValue(Scanned) ELSE 0)

\* C16 as stated: parse returns the value of the leftmost number of the raw
\* price, whatever else the text holds, and returns the unparsable value 0
\* exactly when the text has no digit.
C16_ZeroOnlyWithoutDigit ==
    Parsed => (ReturnsLeftmost /\ (ret = 0 <=> ~HasDigit(Scanned)))

\* C16 amended: parse returns the value of the leftmost number of the raw
\* price, whatever else the text holds; it returns 0 exactly when the text
\* has no digit or its leftmost number is itself zero ("0", "0.00").
C16_LeftmostNumber ==
    Parsed =>
        /\ ReturnsLeftmost
        /\ ret = 0 <=> (~HasDigit(Scanned) \/ LeftmostValue(Scanned) = 0)

\* a text with a symbol before its leftmost number and a second number
\* after it ("$5,9"), parsed to the value of the leftmost one
C16_Witness ==
    /\ Parsed
    /\ Scanned = <<"$", "5", ",", "9">>
    /\ ret = 500

\* ------------------------------------------------------------------------
\* C17: the wholesale heuristic on its own
\* ------------------------------------------------------------------------

\* the text fields tried; None is also what item.get answers for a field
\* the offer does not have
ClassifyTitles ==
    {None, <<>>, <<"B", "u", "l", "k">>, <<"p", "a", "c", "k">>, <<"D", "o", "g">>, <<"s", "h", "o", "w", "C", "A", "S", "E">>, <<"b", "o", "x">>, <<"B", "2">>}

ClassifySources ==
    {None, <<"x", "5">>, <<"B", "2", "B">>, <<"o", "f", " ", "3">>, <<"X", "1", "2">>, <<"b">>}

ClassifySnippets ==
    {None, <<"C", "A", "R", "T", "O", "N">>, <<"a", "b">>, <<"o", "f">>}

ClassifyPrices == {None, <<"$", "5">>}

ClassifyLinks == {None, <<"u", "1">>}

ClassifyOffers ==
    {Offer(t, so, sn, l, p, NoNumber) :
        t \in ClassifyTitles, so \in ClassifySources, sn \in ClassifySnippets,
        l \in ClassifyLinks, p \in ClassifyPrices}

\* one call of looks_wholesale; it reads item and assigns nothing to it, so
\* the dict after the call is the dict passed
LooksWholesale ==
    /\ req = NoRequest
    /\ \E item \in ClassifyOffers :
        /\ req' = [op |-> "classify", item |-> item, after |-> item]
        /\ ret' = looks_wholesale(item)
    /\ calls' = <<>>
    /\ before' = price_history
    /\ UNCHANGED <<SERPAPI_KEY, threads, price_history, now, appended>>

NextClassify == LooksWholesale \/ Respond

SpecClassify == Init /\ [][NextClassify]_vars

\* the request served was a call of the heuristic
Classified == req.op = "classify"

\* the keywords of the fixed set
Keywords ==
    {<<"w", "h", "o", "l", "e", "s", "a", "l", "e">>,
     <<"b", "u", "l", "k">>,
     <<"c", "a", "s", "e", " ", "o", "f">>,
     <<"c", "a", "s", "e">>,
     <<"c", "a", "r", "t", "o", "n">>,
     <<"b", "o", "x", " ", "o", "f">>,
     <<"p", "a", "c", "k", " ", "o", "f">>,
     <<"t", "r", "a", "d", "e">>,
     <<"b", "2", "b">>,
     <<"p", "a", "c", "k", " ", "x">>,
     <<"x", "1", "0">>,
     <<"x", "1", "2">>,
     <<"x", "2", "4">>,
     <<"x", "4", "8">>}

\* a missing or null field is the empty text
FieldText(x) == IF x = None THEN <<>> ELSE x

JoinedText(i) ==
    FieldText(i.title) \o <<" ">> \o FieldText(i.source) \o <<" ">>
    \o FieldText(i.snippet)

\* kw occurs in text at offset k, letter case apart
OccursAt(text, kw, k) ==
    /\ k + Len(kw) <= Len(text)
    /\ \A j \in 1..Len(kw) : LowerChar(text[k + j]) = kw[j]

MentionsKeyword(i) ==
    \E kw \in Keywords : \E k \in 0..Len(JoinedText(i)) :
        OccursAt(JoinedText(i), kw, k)

UpperChar(c) ==
    IF \E k \in 1..26 : LowerCase[k] = c
    THEN UpperCase[CHOOSE k \in 1..26 : LowerCase[k] = c]
    ELSE c

Recase(x, F(_)) == IF x = None THEN None ELSE [k \in 1..Len(x) |-> F(x[k])]

\* the offer with every letter of its text fields in the other case
UpperCased(i) ==
    [i EXCEPT !.title = Recase(@, UpperChar), !.source = Recase(@, UpperChar),
              !.snippet = Recase(@, UpperChar)]

LowerCased(i) ==
    [i EXCEPT !.title = Recase(@, LowerChar), !.source = Recase(@, LowerChar),
              !.snippet = Recase(@, LowerChar)]

\* C17: looks_wholesale answers true exactly when the text
\* title + " " + source + " " + snippet, missing fields empty, holds a
\* keyword of the fixed set, letter case apart; the answer is the same for
\* the offer in upper case, in lower case, and with any other price or link,
\* and the offer is left as it was.
C17_KeywordInJoinedText ==
    Classified =>
        /\ ret = MentionsKeyword(req.item)
        /\ looks_wholesale(UpperCased(req.item)) = ret
        /\ looks_wholesale(LowerCased(req.item)) = ret
        /\ \A p \in ClassifyPrices, l \in ClassifyLinks :
               looks_wholesale([req.item EXCEPT !.price = p, !.link = l]) = ret
        /\ req.after = req.item

\* an offer whose only keyword is in upper case and spans the space between
\* title and source ("B2" + " " + "b" does not, "box" + " " + "of 3" does,
\* "pack" + " " + "X12" holds two), answered true
C17_Witness ==
    /\ Classified
    /\ req.item.title = <<"p", "a", "c", "k">>
    /\ req.item.source = <<"X", "1", "2">>
    /\ req.item.snippet = None
    /\ req.item.price = None
    /\ ret = TRUE

\* ------------------------------------------------------------------------
\* C15: callers that write to what they were handed
\* ------------------------------------------------------------------------

\* what a caller writes into a title it holds
Scribble == <<"X">>

\* A caller of get_history assigns to the title of the k-th entry of the
\* list it was handed.  list(price_history)[-limit:][::-1] copies the list,
\* not the dicts: the k-th entry returned is the dict stored k-th from the
\* newest end of the deque, so the assignment shows in both.
MutateReturned ==
    /\ req.op = "history"
    /\ \E k \in 1..Len(ret) :
        /\ ret[k].title # Scribble
        /\ ret' = [ret EXCEPT ![k].title = Scribble]
        /\ price_history' =
               [price_history EXCEPT ![Len(price_history) + 1 - k].title = Scribble]
    /\ req' = [req EXCEPT !.op = "mutate"]
    /\ UNCHANGED <<SERPAPI_KEY, threads, now, calls, before, appended>>

\* A caller of search assigns to the title of the best offer of an OK
\* result.  best is one of the dicts of results (the first of the minima);
\* the ledger entry is another dict, built by record_history from the
\* values best held, so the assignment does not show in the ledger.
MutateBest ==
    /\ req.op = "search"
    /\ ~Escaped(ret)
    /\ ret.best # NoneOffer
    /\ LET k == CHOOSE j \in 1..Len(ret.results) :
                    /\ ret.results[j] = ret.best
                    /\ \A i \in 1..(j - 1) : ret.results[i] # ret.best
       IN  ret' = [ret EXCEPT !.best.title = Scribble,
                              !.results[k].title = Scribble]
    /\ req' = [req EXCEPT !.op = "mutate"]
    /\ UNCHANGED <<SERPAPI_KEY, threads, price_history, now, calls, before, appended>>

NextAlias == Search \/ GetHistory \/ Respond \/ MutateReturned \/ MutateBest

SpecAlias == Init /\ [][NextAlias]_vars

\* C15: a ledger entry never changes after it is appended: whatever callers
\* did to entries or best offers they were handed, every read of the history
\* returns, newest first, entries as they were when they were appended.
C15_EntriesImmutable ==
    ReadHistory =>
        \A k \in 1..Len(ret) : ret[k] = appended[Len(appended) + 1 - k]

\* ------------------------------------------------------------------------
\* C13: requests served side by side
\* ------------------------------------------------------------------------

(***************************************************************************)
(* search and get_history are plain functions, so the server runs each     *)
(* request on a thread of its pool and requests overlap.  The interpreter  *)
(* lets one thread run at a time and switches between bytecodes:           *)
(* price_history.append(entry), eviction included, is one call into the    *)
(* deque's C code, and so is list(price_history); neither runs Python code *)
(* nor waits, so each is one step.  Building the entry, slicing the copy   *)
(* and the provider requests are steps of their own.                       *)
(***************************************************************************)

\* the requests one thread takes
MaxOpsEach == 2

\* the provider's answers to the searches: one OK search, one that fails
ConcAnswers ==
    {<<ResultsResponse(<<BulkBox>>), NotAsked>>,
     <<ErrorResponse(InvalidKeyError), NotAsked>>}

ConcLimits == {1, HISTORY_LIMIT}

\* the deque after h searches served one after the other
Prefilled(h) ==
    [k \in 1..h |->
        HistoryEntry(k - 1, "dog treats", <<"E", "U">>, "wholesale_priority",
                     Priced(BulkBox))]

\* the overlapping requests arrive at an empty, an almost full or a full
\* history
InitConc ==
    /\ SERPAPI_KEY = "secret"
    /\ \E h \in {0, HISTORY_LIMIT - 1, HISTORY_LIMIT} :
        /\ price_history = Prefilled(h)
        /\ appended = Prefilled(h)
        /\ before = Prefilled(h)
        /\ now = h
    /\ req = NoRequest
    /\ ret = NoneOffer
    /\ calls = <<>>
    /\ threads = [t \in Threads |-> Idle]

Free(t) == threads[t].pc \in {"idle", "done"} /\ threads[t].n < MaxOpsEach

\* a thread takes a search and runs it up to its return or its
\* record_history call; nothing shared is read or written on the way
ThreadSearch ==
    \E t \in Threads :
        /\ Free(t)
        /\ \E query \in Queries, country \in Countries, a \in ConcAnswers :
            \E out \in {search(SERPAPI_KEY, <<>>, 0, query, country,
                               a[1], a[2])} :
                threads' = [threads EXCEPT ![t] =
                    [Idle EXCEPT !.pc = IF out.recorded = <<>>
                                        THEN "done" ELSE "build",
                                 !.n = threads[t].n + 1,
                                 !.op = "search",
                                 !.result = out.ret,
                                 !.rec = out.recorded,
                                 !.ats = threads[t].ats]]
        /\ UNCHANGED <<SERPAPI_KEY, price_history, now, req, ret, calls,
                       before, appended>>

\* lines 36-45: the entry is built and the clock read; the clock, which
\* counts microseconds, has advanced when the next thread reads it
ThreadBuild ==
    \E t \in Threads :
        /\ threads[t].pc = "build"
        /\ threads' = [threads EXCEPT ![t].pc = "append",
               ![t].entry = HistoryEntry(now, threads[t].rec[1].query,
                                         threads[t].rec[1].country,
                                         threads[t].rec[1].mode,
                                         threads[t].rec[1].best)]
        /\ now' = now + 1
        /\ UNCHANGED <<SERPAPI_KEY, price_history, req, ret, calls, before,
                       appended>>

\* line 46: price_history.append(entry), then search returns
ThreadAppend ==
    \E t \in Threads :
        /\ threads[t].pc = "append"
        /\ price_history' = DequeAppend(price_history, threads[t].entry)
        /\ appended' = Append(appended, threads[t].entry)
        /\ threads' = [threads EXCEPT ![t].pc = "done",
               ![t].at = Len(appended) + 1,
               ![t].ats = @ \cup {Len(appended) + 1}]
        /\ UNCHANGED <<SERPAPI_KEY, now, req, ret, calls, before>>

\* a thread takes a read; lines 237 and 239: list(price_history)
ThreadSnapshot ==
    \E t \in Threads :
        /\ Free(t)
        /\ \E limit \in ConcLimits :
            threads' = [threads EXCEPT ![t] =
                [Idle EXCEPT !.pc = "slice",
                             !.n = threads[t].n + 1,
                             !.op = "history",
                             !.limit = limit,
                             !.snap = price_history,
                             !.at = Len(appended),
                             !.ats = threads[t].ats]]
        /\ UNCHANGED <<SERPAPI_KEY, price_history, now, req, ret, calls,
                       before, appended>>

\* lines 239-240: [-limit:][::-1] of the copy, and the return
ThreadSlice ==
    \E t \in Threads :
        /\ threads[t].pc = "slice"
        /\ threads' = [threads EXCEPT ![t].pc = "done",
               ![t].ret = get_history(threads[t].snap, threads[t].limit)]
        /\ UNCHANGED <<SERPAPI_KEY, price_history, now, req, ret, calls,
                       before, appended>>

NextConc ==
    ThreadSearch \/ ThreadBuild \/ ThreadAppend \/ ThreadSnapshot \/ ThreadSlice

SpecConc == InitConc /\ [][NextConc]_vars

\* the history as it stood after the first n appends
LedgerAt(n) == KeepLast(SubSeq(appended, 1, n), HISTORY_LIMIT)

\* the newest-first view of a history, limit entries at most
NewestFirst(history, limit) ==
    [k \in 1..Min(Clamped(limit), Len(history)) |->
        history[Len(history) + 1 - k]]

\* C13: however searches and reads overlap, the appends take effect one at
\* a time: the history never holds more than HISTORY_LIMIT entries and is
\* always the last HISTORY_LIMIT entries appended, in the order they were
\* appended; every append made is in that order once, and every OK search
\* that returned has its own place in it; every read returns the
\* newest-first view of the history as it stood after some number of whole
\* appends.
C13_AppendsSerialized ==
    /\ Len(price_history) <= HISTORY_LIMIT
    /\ price_history = LedgerAt(Len(appended))
    /\ \A t, u \in Threads : t # u => threads[t].ats \cap threads[u].ats = {}
    /\ UNION {threads[t].ats : t \in Threads}
           = (Len(before) + 1)..Len(appended)
    /\ \A t \in Threads :
        /\ (threads[t].op = "search" /\ threads[t].pc = "done"
                /\ threads[t].result.message = "ok") =>
               /\ threads[t].at \in threads[t].ats
               /\ appended[threads[t].at] = threads[t].entry
               /\ threads[t].entry.query = threads[t].result.query
               /\ threads[t].entry.mode = threads[t].result.mode
        /\ (threads[t].op = "history" /\ threads[t].pc \in {"slice", "done"}) =>
               threads[t].snap = LedgerAt(threads[t].at)
        /\ (threads[t].op = "history" /\ threads[t].pc = "done") =>
               threads[t].ret =
                   NewestFirst(LedgerAt(threads[t].at), threads[t].limit)

\* two OK searches for the same query overlapped on a full history: the one
\* that read the clock later appended first, both entries are in the
\* history, and the oldest entries were evicted
C13_Witness ==
    /\ Len(before) = HISTORY_LIMIT
    /\ \A t \in Threads :
        /\ threads[t].op = "search"
        /\ threads[t].pc = "done"
        /\ threads[t].result.message = "ok"
        /\ price_history[HISTORY_LIMIT + threads[t].at - Len(appended)]
               = threads[t].entry
    /\ \E t, u \in Threads :
        /\ threads[t].at < threads[u].at
        /\ threads[t].entry.ts > threads[u].entry.ts
        /\ threads[t].entry.query = threads[u].entry.query
    /\ price_history[1] # before[1]

====
